---- MODULE Spec2Model ----
(***************************************************************************)
(* A model of sample_tables/megatable_gen.py: the generator of the         *)
(* "megatable" stress-test fixture of the cells demo.                      *)
(*                                                                         *)
(* Python strings are TLA+ strings, built character by character with \o,   *)
(* so that formatting (f"{row:02d}", str(row)) is computed digit by digit.  *)
(* A Python dict is modelled as a record [order, map]: the keys in         *)
(* insertion order and the key -> value function.                          *)
(***************************************************************************)
EXTENDS Integers, Sequences, FiniteSets, TLC

VARIABLES
    pc,         \* position of the script
    col_code,   \* loop variable of the outer for (0: not yet bound)
    row,        \* loop variable of the inner for (0: not yet bound)
    cell_id,    \* local cell_id of the last iteration ("": not yet bound)
    inputs,     \* the dict built by gen_megatable
    iters,      \* number of executions of the inner loop body in this call
    megatable,  \* the document returned by gen_megatable (Unbound before)
    f,          \* the file handle of the with statement
    file,       \* megatable.json on disk
    exc,        \* the exception being propagated ("none" when there is none)
    docs        \* documents returned by earlier calls (repeated-call harness)

vars == <<pc, col_code, row, cell_id, inputs, iters, megatable, f, file, exc, docs>>

\* ------------------------------------------------------------------ bounds

\* How many times the repeated-call harness calls gen_megatable.
MaxCalls == 2

\* A failed write leaves a prefix of at most this many members in the file.
MaxPartial == 3

\* ------------------------------------------------- Python builtins used

\* The ASCII characters from code 32 (space) to code 90 ("Z").
Ascii ==
    << " ", "!", "\"", "#", "$", "%", "&", "'", "(", ")", "*", "+", ",", "-",
       ".", "/", "0", "1", "2", "3", "4", "5", "6", "7", "8", "9", ":", ";",
       "<", "=", ">", "?", "@", "A", "B", "C", "D", "E", "F", "G", "H", "I",
       "J", "K", "L", "M", "N", "O", "P", "Q", "R", "S", "T", "U", "V", "W",
       "X", "Y", "Z" >>

chr(n) == Ascii[n - 31]

ord(ch) == 31 + CHOOSE i \in 1..Len(Ascii) : Ascii[i] = ch

RECURSIVE Digits(_)
\* The decimal digits of a natural number, most significant first.
Digits(n) ==
    IF n < 10 THEN chr(ord("0") + n)
    ELSE Digits(n \div 10) \o chr(ord("0") + (n % 10))

\* str(n) of an int.
str(n) == IF n < 0 THEN "-" \o Digits(0 - n) ELSE Digits(n)

RECURSIVE Zeros(_)
Zeros(k) == IF k <= 0 THEN "" ELSE "0" \o Zeros(k - 1)

\* format(n, "02d"): sign, then zeros up to a minimum total width of 2, then
\* the digits; a number wider than the field is not truncated.
Format02d(n) ==
    LET sign == IF n < 0 THEN "-" ELSE ""
        digs == Digits(IF n < 0 THEN 0 - n ELSE n)
    IN  sign \o Zeros(2 - Len(sign) - Len(digs)) \o digs

\* dict()
EmptyDict == [order |-> << >>, map |-> << >>]

DictKeys(d) == DOMAIN d.map

\* d[k] = v: a new key is appended to the insertion order, an existing key
\* keeps its place and has its value replaced.
DictSet(d, k, v) ==
    IF k \in DOMAIN d.map
    THEN [d EXCEPT !.map[k] = v]
    ELSE [order |-> Append(d.order, k), map |-> (k :> v) @@ d.map]

\* ------------------------------------------------------------ get_cell_id

\* Mutant: the row is not zero-padded (f"{col}{row}").
get_cell_id_unpadded(col, r) == col \o str(r)

get_cell_id(col, r) == col \o Format02d(r)

\* ---------------------------------------------------------- gen_megatable

\* Mutant: the outer range stops at ord("Z"), leaving column Z out.
ColStopShort == ord("Z")

\* Mutant: the inner range is range(1, 50), leaving row 50 out.
RowStopShort == 51 - 1

ColStart == ord("A")
ColStop == ord("Z") + 1
RowStart == 1
RowStop == 51

Unbound == [unbound |-> TRUE]

\* Mutant: the loops are nested the other way round (rows outside).
NextIterRowMajor ==
    IF col_code = 0 THEN << ord("A"), 1 >>
    ELSE IF col_code + 1 < ord("Z") + 1 THEN << col_code + 1, row >>
    ELSE IF row + 1 < 51 THEN << ord("A"), row + 1 >>
    ELSE << >>

\* Mutant: the columns are walked from 'Z' down to 'A'.
NextIterDescending ==
    IF col_code = 0 THEN << ord("Z"), 1 >>
    ELSE IF row + 1 < 51 THEN << col_code, row + 1 >>
    ELSE IF col_code - 1 >= ord("A") THEN << col_code - 1, 1 >>
    ELSE << >>

\* The (col_code, row) pair the nested for loops bind next, << >> when both
\* are exhausted.  Before the first iteration the loop variables are unbound.
NextIter ==
    IF col_code = 0 THEN
        IF ColStart < ColStop /\ RowStart < RowStop
        THEN << ColStart, RowStart >> ELSE << >>
    ELSE IF row + 1 < RowStop THEN << col_code, row + 1 >>
    ELSE IF col_code + 1 < ColStop /\ RowStart < RowStop
         THEN << col_code + 1, RowStart >>
    ELSE << >>

\* Mutant: the formula refers to the cell's own column (col for prev_col).
CellContentSameCol(code, r) ==
    LET col == chr(code)
    IN  IF col = "A" THEN str(r)
        ELSE "= " \o get_cell_id(col, r) \o " * 1.25"

\* Mutant: column A stores the zero-padded row (f"{row:02d}" for str(row)).
CellContentPadded(code, r) ==
    LET col == chr(code)
    IN  IF col = "A" THEN Format02d(r)
        ELSE "= " \o get_cell_id(chr(code - 1), r) \o " * 1.25"

\* The value the loop body stores for (code, r).
CellContent(code, r) ==
    LET col == chr(code)
    IN  IF col = "A" THEN str(r)
        ELSE LET prev_col == chr(code - 1)
                 prev_cell_id == get_cell_id(prev_col, r)
             IN  "= " \o prev_cell_id \o " * 1.25"

\* Mutant: the loop position is shared between calls (an iterator created
\* once and never rewound), so a second call finds it exhausted.
GenCallStaleLoop ==
    /\ inputs' = EmptyDict
    /\ UNCHANGED <<col_code, row>>
    /\ cell_id' = ""
    /\ iters' = 0
    /\ pc' = "gen"

\* Entry of gen_megatable: inputs = dict(), and the loops have not started.
GenCall ==
    /\ inputs' = EmptyDict
    /\ col_code' = 0
    /\ row' = 0
    /\ cell_id' = ""
    /\ iters' = 0
    /\ pc' = "gen"

\* Mutant: the script opens megatable.json before it calls gen_megatable
\* (with open(...) as f: json.dump(gen_megatable(), f)).
MainCallOpensFirst ==
    /\ pc = "main"
    /\ inputs' = EmptyDict
    /\ col_code' = 0
    /\ row' = 0
    /\ cell_id' = ""
    /\ iters' = 0
    /\ pc' = "gen"
    /\ f' = "open"
    /\ file' = [kind |-> "partial", members |-> << >>]
    /\ UNCHANGED <<megatable, exc, docs>>

\* megatable = gen_megatable(): the call made by the script.
MainCall ==
    /\ pc = "main"
    /\ GenCall
    /\ UNCHANGED <<megatable, f, file, exc, docs>>

\* One iteration of the inner loop: the for heads bind col_code and row,
\* then the body stores the cell.
Step ==
    /\ pc = "gen"
    /\ NextIter # << >>
    /\ col_code' = NextIter[1]
    /\ row' = NextIter[2]
    /\ cell_id' = get_cell_id(chr(NextIter[1]), NextIter[2])
    /\ inputs' = DictSet(inputs, get_cell_id(chr(NextIter[1]), NextIter[2]),
                         CellContent(NextIter[1], NextIter[2]))
    /\ iters' = iters + 1
    /\ UNCHANGED <<pc, megatable, f, file, exc, docs>>

\* return {"inputs": inputs}, bound to megatable by the caller.
GenReturn ==
    /\ pc = "gen"
    /\ NextIter = << >>
    /\ megatable' = [inputs |-> inputs]
    /\ pc' = "returned"
    /\ UNCHANGED <<col_code, row, cell_id, inputs, iters, f, file, exc, docs>>

\* --------------------------------------------------------------- __main__

Absent == [kind |-> "absent", members |-> << >>]

\* The members json.dump writes for the document: the items of its "inputs"
\* dict in insertion order.
Members(doc) ==
    [i \in 1..Len(doc.inputs.order) |->
        << doc.inputs.order[i], doc.inputs.map[doc.inputs.order[i]] >>]

Partial(doc, k) == [kind |-> "partial", members |-> SubSeq(Members(doc), 1, k)]

\* open("megatable.json", "w") succeeds: the file is created or truncated.
OpenOK ==
    /\ pc = "returned"
    /\ f' = "open"
    /\ file' = [kind |-> "partial", members |-> << >>]
    /\ pc' = "dump"
    /\ UNCHANGED <<col_code, row, cell_id, inputs, iters, megatable, exc, docs>>

\* open raises OSError: the with body is never entered, no handle exists.
OpenFail ==
    /\ pc = "returned"
    /\ exc' = "OSError"
    /\ pc' = "failed"
    /\ UNCHANGED <<col_code, row, cell_id, inputs, iters, megatable, f, file, docs>>

\* json.dump(megatable, f) writes the whole document.
DumpOK ==
    /\ pc = "dump"
    /\ file' = [kind |-> "complete", members |-> Members(megatable)]
    /\ pc' = "exit_with"
    /\ UNCHANGED <<col_code, row, cell_id, inputs, iters, megatable, f, exc, docs>>

\* json.dump raises OSError part-way: a prefix of the document is on disk.
DumpFail ==
    /\ pc = "dump"
    /\ \E k \in 0..MaxPartial :
          /\ k < Len(megatable.inputs.order)
          /\ file' = Partial(megatable, k)
    /\ exc' = "OSError"
    /\ pc' = "exit_with"
    /\ UNCHANGED <<col_code, row, cell_id, inputs, iters, megatable, f, docs>>

\* Mutant: no with statement (f = open(...); json.dump(...); f.close()): the
\* handle is closed only when json.dump did not raise.
WithExitNoClose ==
    /\ pc = "exit_with"
    /\ \/ /\ exc = "none"
          /\ f' = "closed"
          /\ pc' = "done"
          /\ UNCHANGED <<file, exc>>
       \/ /\ exc # "none"
          /\ pc' = "failed"
          /\ UNCHANGED <<f, file, exc>>
    /\ UNCHANGED <<col_code, row, cell_id, inputs, iters, megatable, docs>>

\* The with statement's exit: f is closed whether or not an exception is
\* being propagated; the exception is not swallowed.  The flush done by
\* close may itself fail, which closes the handle all the same.
WithExit ==
    /\ pc = "exit_with"
    /\ f' = "closed"
    /\ \/ /\ exc = "none"
          /\ pc' = "done"
          /\ UNCHANGED <<file, exc>>
       \/ /\ exc = "none"
          /\ \E k \in 0..MaxPartial :
                /\ k < Len(megatable.inputs.order)
                /\ file' = Partial(megatable, k)
          /\ exc' = "OSError"
          /\ pc' = "failed"
       \/ /\ exc # "none"
          /\ pc' = "failed"
          /\ UNCHANGED <<file, exc>>
    /\ UNCHANGED <<col_code, row, cell_id, inputs, iters, megatable, docs>>

\* ------------------------------------------------------ repeated-call harness

\* A caller keeps the document it got and calls gen_megatable() again.
CallAgain ==
    /\ pc = "returned"
    /\ Len(docs) + 1 < MaxCalls
    /\ docs' = Append(docs, megatable)
    /\ megatable' = Unbound
    /\ GenCall
    /\ UNCHANGED <<f, file, exc>>

\* ---------------------------------------------------------- specifications

Init ==
    /\ pc = "main"
    /\ col_code = 0
    /\ row = 0
    /\ cell_id = ""
    /\ inputs = EmptyDict
    /\ iters = 0
    /\ megatable = Unbound
    /\ f = "unbound"
    /\ file = Absent
    /\ exc = "none"
    /\ docs = << >>

Next ==
    \/ MainCall
    \/ Step
    \/ GenReturn
    \/ OpenOK
    \/ OpenFail
    \/ DumpOK
    \/ DumpFail
    \/ WithExit

Spec == Init /\ [][Next]_vars

\* The script is sequential: whenever it can take a step it does.
LiveSpec == Init /\ [][Next]_vars /\ WF_vars(Next)

NextTwice ==
    \/ MainCall
    \/ Step
    \/ GenReturn
    \/ CallAgain

SpecTwice == Init /\ [][NextTwice]_vars

\* ------------------------------------------------- vocabulary of the claims

\* The grid of the claims: columns 'A'..'Z' as 1..26, rows 1..50.
Cols == 1..26
Rows == 1..50

Letters ==
    << "A", "B", "C", "D", "E", "F", "G", "H", "I", "J", "K", "L", "M",
       "N", "O", "P", "Q", "R", "S", "T", "U", "V", "W", "X", "Y", "Z" >>

DigitChars == << "0", "1", "2", "3", "4", "5", "6", "7", "8", "9" >>

\* r as exactly two decimal digits.
TwoDigits(r) == DigitChars[(r \div 10) + 1] \o DigitChars[(r % 10) + 1]

\* r as an unpadded decimal string (r < 100).
Unpadded(r) == IF r < 10 THEN DigitChars[r + 1] ELSE TwoDigits(r)

\* The identifier the claims expect for column number c and row r.
IdOf(c, r) == Letters[c] \o TwoDigits(r)

\* The column number and the row a three-character identifier names.
\* The i-th character of a string.
CharAt(s, i) == SubSeq(s, i, i)

ColNo(k) == CHOOSE c \in Cols : Letters[c] = CharAt(k, 1)
DigitNo(ch) == (CHOOSE d \in 1..10 : DigitChars[d] = ch) - 1
RowNo(k) == 10 * DigitNo(CharAt(k, 2)) + DigitNo(CharAt(k, 3))

IsFormula(v) == Len(v) > 0 /\ CharAt(v, 1) = "="

\* The cell identifier a formula string "= <id> * 1.25" refers to.
Ref(v) == SubSeq(v, 3, Len(v) - 7)

RECURSIVE Hops(_, _, _)
\* The number of references followed from key k of dict d until a literal is
\* reached; -1 when a reference dangles or more than `fuel` are followed.
Hops(d, k, fuel) ==
    IF k \notin DictKeys(d) \/ fuel < 0 THEN -1
    ELSE IF ~IsFormula(d.map[k]) THEN 0
    ELSE LET h == Hops(d, Ref(d.map[k]), fuel - 1)
         IN  IF h < 0 THEN -1 ELSE h + 1

\* gen_megatable has just returned its document.
Returned == pc = "returned"

\* ----------------------------------------------------------------- claims

\* C1: when gen_megatable returns, the inputs mapping has exactly 1300
\* entries, its key set is exactly { get_cell_id(c, r) : c in 'A'..'Z',
\* r in 1..50 }, and no iteration overwrote an entry of an earlier one (every
\* iteration so far added a new key).
C1_KeySet ==
    /\ pc \in {"gen", "returned"} => Len(inputs.order) = iters
    /\ Returned =>
          /\ Cardinality(DictKeys(megatable.inputs)) = 1300
          /\ Len(megatable.inputs.order) = 1300
          /\ DictKeys(megatable.inputs)
                = { get_cell_id(Letters[c], r) : c \in Cols, r \in Rows }

C1_Witness == Returned /\ iters = 1300

\* C2: for every column c in 'B'..'Z' and row r in 1..50, the content stored
\* under the identifier of (c, r) is "= " + the identifier of (prev(c), r) +
\* " * 1.25": the same row, the column immediately to the left.
C2_FormulaCells ==
    Returned =>
        \A c \in Cols \ {1}, r \in Rows :
            /\ IdOf(c, r) \in DictKeys(megatable.inputs)
            /\ megatable.inputs.map[IdOf(c, r)]
                  = "= " \o IdOf(c - 1, r) \o " * 1.25"

C2_Witness ==
    /\ Returned
    /\ megatable.inputs.map["C07"] = "= B07 * 1.25"

\* C3: for every row r in 1..50 the content stored under the column-A
\* identifier of row r is the unpadded decimal string of r, and no column-A
\* cell holds a formula string.
C3_LiteralCells ==
    Returned =>
        \A r \in Rows :
            /\ IdOf(1, r) \in DictKeys(megatable.inputs)
            /\ megatable.inputs.map[IdOf(1, r)] = Unpadded(r)
            /\ ~IsFormula(megatable.inputs.map[IdOf(1, r)])

C3_Witness ==
    /\ Returned
    /\ megatable.inputs.map["A07"] = "7"
    /\ megatable.inputs.map["A50"] = "50"

\* C4: for every column letter c in 'A'..'Z' and row r in 1..50,
\* get_cell_id(c, r) has exactly three characters, the letter c followed by r
\* as two zero-padded decimal digits; so get_cell_id is injective there.
\* Checked on the identifier each iteration computes, and over the whole
\* domain once the loops are done.
C4_CellIdFormat ==
    /\ (pc = "gen" /\ iters > 0) =>
          /\ Len(cell_id) = 3
          /\ CharAt(cell_id, 1) = chr(col_code)
          /\ CharAt(cell_id, 2) = DigitChars[(row \div 10) + 1]
          /\ CharAt(cell_id, 3) = DigitChars[(row % 10) + 1]
    /\ Returned =>
          /\ \A c \in Cols, r \in Rows : get_cell_id(Letters[c], r) = IdOf(c, r)
          /\ Cardinality({ get_cell_id(Letters[c], r) : c \in Cols, r \in Rows })
                = Cardinality(Cols \X Rows)

C4_Witness ==
    /\ pc = "gen"
    /\ col_code = ord("Z")
    /\ row = 1
    /\ cell_id = "Z01"

\* C5: entries are inserted in the order A01..A50, B01..B50, ..., Z01..Z50:
\* the entry of (c1, r1) comes before the entry of (c2, r2) in the insertion
\* order if and only if c1 < c2, or c1 = c2 and r1 < r2.
C5_InsertionOrder ==
    Returned =>
        LET order == megatable.inputs.order
            col == [i \in 1..Len(order) |-> ColNo(order[i])]
            rw == [i \in 1..Len(order) |-> RowNo(order[i])]
        IN  /\ \A c \in Cols, r \in Rows : \E i \in 1..Len(order) : order[i] = IdOf(c, r)
            /\ \A i, j \in 1..Len(order) :
                  (i < j) <=>
                     (col[i] < col[j] \/ (col[i] = col[j] /\ rw[i] < rw[j]))

C5_Witness ==
    /\ Returned
    /\ megatable.inputs.order[50] = "A50"
    /\ megatable.inputs.order[51] = "B01"

\* C6: gen_megatable terminates on every run, after exactly 26 * 50 = 1300
\* executions of the inner loop body, and returns a document whose only key
\* is "inputs".
C6_Terminates ==
    /\ <>Returned
    /\ [](iters <= 1300)
    /\ [](Returned => (iters = 1300 /\ DOMAIN megatable = {"inputs"}))

C6_Witness == Returned /\ iters = 26 * 50 /\ DOMAIN megatable = {"inputs"}

\* C7: two independent runs of gen_megatable yield identical documents, with
\* the same key set, the same content under every key and the same insertion
\* order; a run's result does not depend on a run having happened before it.
C7_SameDocument ==
    Returned =>
        \A i \in 1..Len(docs) :
            /\ DictKeys(docs[i].inputs) = DictKeys(megatable.inputs)
            /\ \A k \in DictKeys(megatable.inputs) :
                  docs[i].inputs.map[k] = megatable.inputs.map[k]
            /\ docs[i].inputs.order = megatable.inputs.order
            /\ docs[i] = megatable

C7_Witness ==
    /\ Returned
    /\ Len(docs) >= 1
    /\ Len(docs[1].inputs.order) = 1300
    /\ Len(megatable.inputs.order) = 1300

\* C8: megatable.json is opened and written only after gen_megatable has
\* built all 1300 entries; the mapping and the returned document do not
\* change from the return on; what is written is the returned document; no
\* file is touched while the mapping is being built.
C8_WriteAfterBuild ==
    /\ []((f # "unbound" \/ file # Absent) =>
            /\ pc \notin {"main", "gen"}
            /\ iters = 1300
            /\ Cardinality(DictKeys(inputs)) = 1300
            /\ megatable = [inputs |-> inputs])
    /\ [][pc \notin {"main", "gen"} =>
            (inputs' = inputs /\ megatable' = megatable)]_vars
    /\ [](file # Absent =>
            /\ Len(file.members) <= Len(Members(megatable))
            /\ file.members = SubSeq(Members(megatable), 1, Len(file.members)))
    /\ [](pc = "done" => (file.kind = "complete" /\ file.members = Members(megatable)))

C8_Witness ==
    /\ pc = "done"
    /\ f = "closed"
    /\ Len(file.members) = 1300
    /\ file.members[57] = << "B07", "= A07 * 1.25" >>

\* C9: a failure to open or write megatable.json is propagated, not handled:
\* the run ends failed, nothing is retried, a partially written file is not
\* repaired, and whenever the run has ended (written or failed) a handle that
\* was acquired has been released.
C9_WriteFailure ==
    /\ [](pc \in {"done", "failed"} => f # "open")
    /\ [](pc = "failed" <=> (exc # "none" /\ pc # "exit_with"))
    /\ [](pc = "done" => (exc = "none" /\ file.kind = "complete"))
    /\ [][exc # "none" => (exc' = exc /\ file' = file /\ pc' = "failed")]_vars
    /\ [][pc # "failed"]_vars

C9_Witness ==
    /\ pc = "failed"
    /\ exc = "OSError"
    /\ f = "closed"
    /\ file.kind = "partial"
    /\ Len(file.members) = 2

\* C10: in every state of the construction, every formula entry already in
\* the mapping refers to an identifier that is already a key, in a column
\* within 'A'..'Y'; following references from a cell of column c reaches a
\* column-A literal in exactly ord(c) - ord('A') steps (so there is no cycle).
C10_ReferencesResolve ==
    \A k \in DictKeys(inputs) :
        LET v == inputs.map[k]
        IN  /\ IsFormula(v) =>
                  /\ Ref(v) \in DictKeys(inputs)
                  /\ \E c \in 1..25 : Letters[c] = CharAt(Ref(v), 1)
            /\ ~IsFormula(v) => CharAt(k, 1) = "A"
            /\ Hops(inputs, k, Len(Letters)) = ord(CharAt(k, 1)) - ord("A")

C10_Witness ==
    /\ pc = "gen"
    /\ iters = 120
    /\ cell_id = "C20"
    /\ Hops(inputs, cell_id, Len(Letters)) = 2

====
